---- MODULE Spec2Model ----
(***************************************************************************)
(* A model of eit6609/epub-creator: the EPUBCreator class                  *)
(* (src/src/epub-creator.js, lines 1-328) and the NavMapBuilder class      *)
(* (src/README.md, lines 229-311).                                         *)
(*                                                                         *)
(* Strings the code cuts, joins or searches (paths, hrefs, identifiers)    *)
(* are sequences of one-character strings, so that substring, lastIndexOf, *)
(* path.join and the number formatter are computed, not assumed.  Texts    *)
(* the code only copies (titles, labels) are sequences of opaque tokens.   *)
(***************************************************************************)
EXTENDS Integers, Sequences, FiniteSets, TLC

VARIABLES
    options,        \* the options object handed to the constructor
    mockSchema,     \* the constructor's second argument: truthy or not
    peer,           \* a second instance, while the first one runs
    fs,             \* the content tree on disk, as the walker sees it
    entropy,        \* what uuid.v4() and new Date() give this instance
    pc,             \* where the instance is: new, ready, manifest, assemble, zip,
                    \* save, done, failed
    error,          \* the error thrown or the rejection reason of the last call
    contentDir,     \* this.contentDir
    spine,          \* this.spine
    toc,            \* this.toc
    metadata,       \* this.metadata
    cover,          \* this.cover
    fileName2id,    \* this.fileName2id
    promise,        \* the walker promise the current loop awaits
    walked,         \* how many triples the current walk has yielded
    counter,        \* buildManifest's counter
    manifest,       \* buildManifest's manifest
    navMapBuilder,  \* the NavMapBuilder of buildTOC
    docs,           \* create()'s container, content, toc and coverPage
    zip,            \* the entries registered with the archive writer
    saved           \* what saveZip wrote

vars == << options, mockSchema, peer, fs, entropy, pc, error, contentDir, spine, toc, metadata, cover,
           fileName2id, promise, walked, counter, manifest, navMapBuilder,
           docs, zip, saved >>

----------------------------------------------------------------------------
(* Bounds of the model. *)

MaxNodes == 4
MaxFiles == 2
MaxSpine == 2
MaxMeta == 2
MaxIds == 2
MaxMediaFiles == 2

----------------------------------------------------------------------------
(* JavaScript strings. *)

\* s.lastIndexOf(c): the 0-based index of the last c in s, or -1.
LastIndexOf(s, c) ==
    IF \E i \in 1..Len(s) : s[i] = c
    THEN (CHOOSE i \in 1..Len(s) : s[i] = c /\ \A j \in (i+1)..Len(s) : s[j] # c) - 1
    ELSE -1

\* s.substring(from): the characters from the 0-based index from on.
SubstringFrom(s, from) ==
    IF from >= Len(s) THEN <<>> ELSE SubSeq(s, (IF from < 0 THEN 0 ELSE from) + 1, Len(s))

\* s.substring(0, to): the first to characters.
SubstringTo(s, to) ==
    SubSeq(s, 1, IF to > Len(s) THEN Len(s) ELSE to)

DigitChars == <<"0", "1", "2", "3", "4", "5", "6", "7", "8", "9">>

\* `${n}` for a non-negative integer n.
RECURSIVE Digits(_)
Digits(n) ==
    IF n < 10 THEN << DigitChars[n + 1] >>
    ELSE Digits(n \div 10) \o << DigitChars[(n % 10) + 1] >>

RECURSIVE PadZeros(_, _)
PadZeros(s, width) ==
    IF Len(s) >= width THEN s ELSE PadZeros(<<"0">> \o s, width)

MinimumIntegerDigits == 6

\* FORMATTER.format(n): at least six digits, no grouping.
FormatNumber(n) == PadZeros(Digits(n), MinimumIntegerDigits)

----------------------------------------------------------------------------
(* Errors. *)

NoError == [kind |-> "none", path |-> <<>>]
FileNotFound(name) == [kind |-> "File not found in manifest", path |-> name]
CantGuessMediaType(path) == [kind |-> "Can't guess media type", path |-> path]
CoverNotImage(path) == [kind |-> "Cover file is not an image", path |-> path]
InvalidOptions == [kind |-> "Invalid options", path |-> <<>>]
InvalidTocItemInfo == [kind |-> "Invalid TOC item info", path |-> <<>>]
InvalidTocItem == [kind |-> "Invalid TOC item", path |-> <<>>]
InvalidJSML == [kind |-> "Invalid JSML", path |-> <<>>]
\* The rejections of the walker's promise and of readFile.
WalkError(path) == [kind |-> "walk error", path |-> path]
ReadError(path) == [kind |-> "read error", path |-> path]

----------------------------------------------------------------------------
(* The registry, a Map from relative path to identifier. *)

EmptyMap == <<>>

MapSet(m, k, v) == [x \in (DOMAIN m) \cup {k} |-> IF x = k THEN v ELSE m[x]]

\* getFileId throws if the name has no entry.
GetFileIdThrows(reg, name) == name \notin DOMAIN reg

GetFileId(reg, name) == reg[name]

----------------------------------------------------------------------------
(* NavMapBuilder. *)

StripFragment(href) ==
    LET fragmentIndex == LastIndexOf(href, "#")
    IN  IF fragmentIndex < 0 THEN href ELSE SubstringTo(href, fragmentIndex)

\* infoSchema: label and href are required, non-empty strings.
InfoSchemaError(info) == info.label = <<>> \/ info.href = <<>>

\* checkItems without the recursive call on the children.
RECURSIVE CheckItemsTopLevelOnly(_, _, _)
CheckItemsTopLevelOnly(items, i, reg) ==
    IF i > Len(items) THEN NoError
    ELSE LET item == items[i]
             first == IF ~item.isArray THEN InvalidTocItem
                      ELSE IF InfoSchemaError(item) THEN InvalidTocItemInfo
                      ELSE IF GetFileIdThrows(reg, StripFragment(item.href))
                           THEN FileNotFound(StripFragment(item.href))
                           ELSE NoError
         IN  IF first # NoError THEN first ELSE CheckItemsTopLevelOnly(items, i + 1, reg)

\* checkItems: the first error of a pre-order walk of the items, or NoError.
RECURSIVE CheckItemsFrom(_, _, _)
CheckItemsFrom(items, i, reg) ==
    IF i > Len(items) THEN NoError
    ELSE LET item == items[i]
             first == IF ~item.isArray THEN InvalidTocItem
                      ELSE IF InfoSchemaError(item) THEN InvalidTocItemInfo
                      ELSE IF GetFileIdThrows(reg, StripFragment(item.href))
                           THEN FileNotFound(StripFragment(item.href))
                           ELSE CheckItemsFrom(item.children, 1, reg)
         IN  IF first # NoError THEN first ELSE CheckItemsFrom(items, i + 1, reg)

CheckItems(items, reg) == CheckItemsFrom(items, 1, reg)

NcxId(n) == <<"n", "c", "x", "-">> \o FormatNumber(n)

\* buildNavPoint with the builder's counter and maxDepth threaded through:
\* b is [counter, maxDepth]; the result adds the navPoint built.
RECURSIVE BuildNavPoint(_, _, _)
RECURSIVE BuildNavPoints(_, _, _, _)
\* buildNavPoint incrementing the counter after the children are built.
BuildNavPointCountAfterChildren(item, level, b) ==
    LET deepest == IF b.maxDepth < level THEN level ELSE b.maxDepth
        kids == BuildNavPoints(item.children, 1, level + 1,
                    [counter |-> b.counter, maxDepth |-> deepest, out |-> <<>>])
    IN  [navPoint |-> [id |-> NcxId(b.counter),
                       playOrder |-> Digits(b.counter),
                       label |-> item.label,
                       src |-> item.href,
                       children |-> kids.out],
         counter |-> kids.counter + 1,
         maxDepth |-> kids.maxDepth]

\* buildNavPoint setting maxDepth to the level of the node at hand.
BuildNavPointLastLevel(item, level, b) ==
    LET kids == BuildNavPoints(item.children, 1, level + 1,
                    [counter |-> b.counter + 1, maxDepth |-> level, out |-> <<>>])
    IN  [navPoint |-> [id |-> NcxId(b.counter),
                       playOrder |-> Digits(b.counter),
                       label |-> item.label,
                       src |-> item.href,
                       children |-> kids.out],
         counter |-> kids.counter,
         maxDepth |-> kids.maxDepth]

BuildNavPoint(item, level, b) ==
    LET deepest == IF b.maxDepth < level THEN level ELSE b.maxDepth
        kids == BuildNavPoints(item.children, 1, level + 1,
                    [counter |-> b.counter + 1, maxDepth |-> deepest, out |-> <<>>])
    IN  [navPoint |-> [id |-> NcxId(b.counter),
                       playOrder |-> Digits(b.counter),
                       label |-> item.label,
                       src |-> item.href,
                       children |-> kids.out],
         counter |-> kids.counter,
         maxDepth |-> kids.maxDepth]

\* forEach(items, (item) => out.push(this.buildNavPoint(item, level)))
BuildNavPoints(items, i, level, acc) ==
    IF i > Len(items) THEN acc
    ELSE LET r == BuildNavPoint(items[i], level,
                      [counter |-> acc.counter, maxDepth |-> acc.maxDepth])
         IN  BuildNavPoints(items, i + 1, level,
                 [counter |-> r.counter, maxDepth |-> r.maxDepth,
                  out |-> Append(acc.out, r.navPoint)])

\* A NavMapBuilder before build(): result, counter and maxDepth are undefined.
NewNavMapBuilder ==
    [built |-> FALSE, result |-> <<>>, counter |-> 0, maxDepth |-> 0]

\* build(items) assigning result, counter and maxDepth before it checks the
\* items.
NavMapBuildResetFirst(b, items, reg) ==
    LET err == CheckItems(items, reg)
        r == BuildNavPoints(items, 1, 1, [counter |-> 1, maxDepth |-> 0, out |-> <<>>])
    IN  IF err # NoError
        THEN [builder |-> [built |-> TRUE, result |-> <<>>, counter |-> 1, maxDepth |-> 0],
              error |-> err]
        ELSE [builder |-> [built |-> TRUE, result |-> r.out,
                           counter |-> r.counter, maxDepth |-> r.maxDepth],
              error |-> NoError]

\* build(items) on builder b: [builder, error].
NavMapBuild(b, items, reg) ==
    LET err == CheckItems(items, reg)
        r == BuildNavPoints(items, 1, 1, [counter |-> 1, maxDepth |-> 0, out |-> <<>>])
    IN  IF err # NoError
        THEN [builder |-> b, error |-> err]
        ELSE [builder |-> [built |-> TRUE, result |-> r.out,
                           counter |-> r.counter, maxDepth |-> r.maxDepth],
              error |-> NoError]

----------------------------------------------------------------------------
(* Metadata: JSML elements [tag, attributes, children].  The attributes    *)
(* are a set of <<name, value>> pairs; the children are texts.             *)

Element(tag, attrs, children) == [tag |-> tag, attrs |-> attrs, children |-> children]

\* The value JavaScript calls undefined, where a text is expected.
Undefined == <<"(undefined)">>

DEFAULT_LANGUAGE == <<"en">>
DEFAULT_TITLE == <<"Untitled">>

\* x || y with its operands swapped.
OrElseSwapped(x, y) == IF y = Undefined \/ y = <<"">> THEN x ELSE y

\* x || y on texts: undefined and '' are falsy.
OrElse(x, y) == IF x = Undefined \/ x = <<"">> THEN y ELSE x

\* JSMLUtils.getChildren(element)[0]
FirstChild(element) ==
    IF element.children = <<>> THEN Undefined ELSE element.children[1]

\* getElementTextByName: the first child of the first element with the tag.
GetElementTextByName(name, jsml) ==
    IF \E i \in 1..Len(jsml) : jsml[i].tag = name
    THEN FirstChild(jsml[CHOOSE i \in 1..Len(jsml) :
                            jsml[i].tag = name /\ \A j \in 1..(i-1) : jsml[j].tag # name])
    ELSE Undefined

UuidIdentifier(u) ==
    Element("dc:identifier", {<<"id", "BookId">>, <<"opf:scheme", "uuid">>}, << <<"urn:uuid:", u>> >>)

\* The elements prepareMetadata pushes to extraElements, in its order.
ExtraElements(md, sm, u, now) ==
    (IF GetElementTextByName("dc:identifier", md) = Undefined
     THEN << UuidIdentifier(u) >> ELSE <<>>)
    \o (IF GetElementTextByName("dc:date", md) = Undefined
        THEN << Element("dc:date", {}, << now >>) >> ELSE <<>>)
    \o (IF GetElementTextByName("dc:language", md) = Undefined
        THEN << Element("dc:language", {}, << OrElse(sm.language, DEFAULT_LANGUAGE) >>) >>
        ELSE <<>>)
    \o (IF GetElementTextByName("dc:title", md) = Undefined
        THEN << Element("dc:title", {}, << OrElse(sm.title, DEFAULT_TITLE) >>) >>
        ELSE <<>>)
    \o (IF GetElementTextByName("dc:creator", md) = Undefined /\ sm.author # Undefined
        THEN << Element("dc:creator", {<<"opf:role", "aut">>}, << sm.author >>) >>
        ELSE <<>>)

\* What is neither an array nor a string, where an element is expected.
NotAnElement == [tag |-> "(number)", attrs |-> {}, children |-> <<>>]

\* validateJSML(['metadata', ...metadata]) throws.
ValidateJSMLThrows(md) == \E i \in 1..Len(md) : md[i] = NotAnElement

\* prepareMetadata putting the synthesized elements first.
PrepareMetadataExtraFirst(md, sm, u, now) ==
    [result |-> ExtraElements(md, sm, u, now) \o md, argument |-> md]

\* prepareMetadata(metadata, simpleMetadata), with the UUID and the time drawn:
\* the array it returns, and the caller's array after the call (concat
\* makes a new array, so the caller's is as it was).
PrepareMetadata(md, sm, u, now) ==
    [result |-> md \o ExtraElements(md, sm, u, now), argument |-> md]

\* optionsSchema without unique() on the spine.
OptionsSchemaAllowsDuplicates(o) ==
    \/ o.missing # {}
    \/ o.simpleMetadata.isbn # Undefined
    \/ o.simpleMetadata.description # Undefined
    \/ o.simpleMetadata.tags # <<>>

\* optionsSchema: contentDir, spine and toc are required; spine items are
\* unique; simpleMetadata knows title, author and language only.
OptionsSchemaError(o) ==
    \/ o.missing # {}
    \/ \E i, j \in 1..Len(o.spine) : i # j /\ o.spine[i] = o.spine[j]
    \/ o.simpleMetadata.isbn # Undefined
    \/ o.simpleMetadata.description # Undefined
    \/ o.simpleMetadata.tags # <<>>

----------------------------------------------------------------------------
(* Paths, media types and the walker. *)

\* The segments of a path: the maximal runs of characters other than "/".
RECURSIVE SplitPath(_, _, _)
SplitPath(s, i, cur) ==
    IF i > Len(s) THEN (IF cur = <<>> THEN <<>> ELSE << cur >>)
    ELSE IF s[i] = "/"
         THEN (IF cur = <<>> THEN <<>> ELSE << cur >>) \o SplitPath(s, i + 1, <<>>)
         ELSE SplitPath(s, i + 1, Append(cur, s[i]))

RECURSIVE JoinSegments(_, _)
JoinSegments(segs, i) ==
    IF i > Len(segs) THEN <<>>
    ELSE (IF i > 1 THEN <<"/">> ELSE <<>>) \o segs[i] \o JoinSegments(segs, i + 1)

\* path.join(a, b) for a non-empty file name b: the two joined by "/", then
\* normalized: runs of "/" collapse and "." segments go.
PathJoin(a, b) ==
    LET segs == SelectSeq(SplitPath(a \o <<"/">> \o b, 1, <<>>), LAMBDA g : g # <<".">>)
    IN  (IF a # <<>> /\ a[1] = "/" THEN <<"/">> ELSE <<>>) \o JoinSegments(segs, 1)

\* The media type of the switch in getMediaTypeFromFilename, "" for its default.
MediaTypeOfExtension(ext) ==
    CASE ext = <<"h", "t", "m", "l">> -> "application/xhtml+xml"
      [] ext = <<"x", "h", "t", "m", "l">> -> "application/xhtml+xml"
      [] ext = <<"p", "n", "g">> -> "image/png"
      [] ext = <<"g", "i", "f">> -> "image/gif"
      [] ext = <<"j", "p", "g">> -> "image/jpeg"
      [] ext = <<"s", "v", "g">> -> "image/svg+xml"
      [] ext = <<"c", "s", "s">> -> "text/css"
      [] OTHER -> ""

GetMediaTypeFromFilename(path) ==
    MediaTypeOfExtension(SubstringFrom(path, LastIndexOf(path, ".") + 1))

\* The default case returning a type instead of throwing.
GetMediaTypeNeverThrows(path) == FALSE

\* getMediaTypeFromFilename throws in the default case.
GetMediaTypeThrows(path) == GetMediaTypeFromFilename(path) = ""

\* mediaType.startsWith('image/'), on the media types of the switch.
IsImageType(mediaType) ==
    mediaType \in {"image/png", "image/gif", "image/jpeg", "image/svg+xml"}

\* The one subdirectory of the content trees of the model.
SubDir == <<"i">>

\* A content tree: the file names of the root and of its subdirectory, in
\* the walker's order; whether the walker's promise rejects (the root cannot
\* be listed); the names of the files readFile cannot read.
Tree(root, sub, walkFails, unreadable) ==
    [root |-> root, sub |-> sub, walkFails |-> walkFails, unreadable |-> unreadable]

\* What the walker yields for a root: the root's triple, then the
\* subdirectory's if it exists (it exists when it holds a file).
WalkTriples(root, tree) ==
    << [dirPath |-> root, dirNames |-> IF tree.sub = <<>> THEN <<>> ELSE << SubDir >>,
        fileNames |-> tree.root] >>
    \o (IF tree.sub = <<>> THEN <<>>
        ELSE << [dirPath |-> PathJoin(root, SubDir), dirNames |-> <<>>,
                 fileNames |-> tree.sub] >>)

\* The for..of loop over the walker's promises ending after the first.
NoMoreTriples(n, triples) == FALSE

\* The for..of loop over the walker's promises has another one to await
\* after the n-th.
MoreTriples(n, triples) == n < Len(triples)

NoPromise == [state |-> "none"]
PendingPromise == [state |-> "pending"]
ResolvedPromise(v) == [state |-> "resolved", value |-> v]
RejectedPromise(e) == [state |-> "rejected", reason |-> e]

----------------------------------------------------------------------------
(* The package documents. *)

TOC_ID == <<"i", "d", "-", "t", "o", "c">>
COVER_PAGE_ID == <<"i", "d", "-", "c", "o", "v", "e", "r">>
TOC_FILENAME == <<"t", "o", "c", ".", "n", "c", "x">>
CONTENT_FILENAME == <<"c", "o", "n", "t", "e", "n", "t", ".", "o", "p", "f">>
COVER_PAGE_FILENAME ==
    <<"c", "o", "v", "e", "r", "-", "p", "a", "g", "e", ".", "h", "t", "m", "l">>
CONTENT_DIR == <<"O", "E", "B", "P", "S">>
CONTAINER_FILENAME ==
    <<"M", "E", "T", "A", "-", "I", "N", "F", "/",
      "c", "o", "n", "t", "a", "i", "n", "e", "r", ".", "x", "m", "l">>
MIMETYPE_FILENAME == <<"m", "i", "m", "e", "t", "y", "p", "e">>

Item(id, href, mediaType) == [id |-> id, href |-> href, mediaType |-> mediaType]

FileId(n) == <<"i", "d", "-">> \o FormatNumber(n)

\* buildManifest before its loop: the toc item, and the cover page's if any.
InitialManifest(cov) ==
    << Item(TOC_ID, TOC_FILENAME, "application/x-dtbncx+xml") >>
    \o (IF cov # <<>>
        THEN << Item(COVER_PAGE_ID, COVER_PAGE_FILENAME, "application/xhtml+xml") >>
        ELSE <<>>)

\* The forEach of buildManifest over one triple's file names, from the i-th:
\* st is [counter, reg, manifest, error]; a throw ends the loop.
RECURSIVE ManifestFiles(_, _, _, _, _)
\* The forEach inferring the media type of a file before it registers it.
RECURSIVE ManifestFilesCheckFirst(_, _, _, _, _)
ManifestFilesCheckFirst(root, dirPath, fileNames, i, st) ==
    IF i > Len(fileNames) THEN st
    ELSE LET fileName == fileNames[i]
             id == FileId(st.counter)
             href == SubstringFrom(PathJoin(dirPath, fileName), Len(root) + 1)
             reg == MapSet(st.reg, href, id)
         IN  IF GetMediaTypeThrows(fileName)
             THEN [counter |-> st.counter + 1, reg |-> st.reg, manifest |-> st.manifest,
                   error |-> CantGuessMediaType(fileName)]
             ELSE ManifestFilesCheckFirst(root, dirPath, fileNames, i + 1,
                      [counter |-> st.counter + 1, reg |-> reg,
                       manifest |-> Append(st.manifest,
                                       Item(id, href, GetMediaTypeFromFilename(fileName))),
                       error |-> NoError])

ManifestFiles(root, dirPath, fileNames, i, st) ==
    IF i > Len(fileNames) THEN st
    ELSE LET fileName == fileNames[i]
             id == FileId(st.counter)
             href == SubstringFrom(PathJoin(dirPath, fileName), Len(root) + 1)
             reg == MapSet(st.reg, href, id)
         IN  IF GetMediaTypeThrows(fileName)
             THEN [counter |-> st.counter + 1, reg |-> reg, manifest |-> st.manifest,
                   error |-> CantGuessMediaType(fileName)]
             ELSE ManifestFiles(root, dirPath, fileNames, i + 1,
                      [counter |-> st.counter + 1, reg |-> reg,
                       manifest |-> Append(st.manifest,
                                       Item(id, href, GetMediaTypeFromFilename(fileName))),
                       error |-> NoError])

NoDoc == [none |-> TRUE]

BuildContainer == [fullPath |-> PathJoin(CONTENT_DIR, CONTENT_FILENAME),
                   mediaType |-> "application/oebps-package+xml"]

\* buildMetadata: the merged metadata, and the cover's meta element if any.
BuildMetadataThrows(cov, reg) == cov # <<>> /\ GetFileIdThrows(reg, cov)

\* buildMetadata pointing the cover's meta element at the cover page.
BuildMetadataCoverPageId(md, cov, reg) ==
    [children |-> md,
     coverMeta |-> IF cov # <<>> THEN << COVER_PAGE_ID >> ELSE <<>>]

BuildMetadata(md, cov, reg) ==
    [children |-> md,
     coverMeta |-> IF cov # <<>> THEN << GetFileId(reg, cov) >> ELSE <<>>]

\* buildSpine throws at the first spine path the registry does not hold.
BuildSpineThrows(sp, reg) == \E i \in 1..Len(sp) : GetFileIdThrows(reg, sp[i])

BuildSpineError(sp, reg) ==
    FileNotFound(sp[CHOOSE i \in 1..Len(sp) :
                        /\ GetFileIdThrows(reg, sp[i])
                        /\ \A j \in 1..(i-1) : ~GetFileIdThrows(reg, sp[j])])

\* buildSpine pushing the cover page's itemref after the spine's.
BuildSpineCoverLast(sp, cov, reg) ==
    [toc |-> TOC_ID,
     itemrefs |-> [i \in 1..Len(sp) |-> GetFileId(reg, sp[i])]
                  \o (IF cov # <<>> THEN << COVER_PAGE_ID >> ELSE <<>>)]

BuildSpine(sp, cov, reg) ==
    [toc |-> TOC_ID,
     itemrefs |-> (IF cov # <<>> THEN << COVER_PAGE_ID >> ELSE <<>>)
                  \o [i \in 1..Len(sp) |-> GetFileId(reg, sp[i])]]

BuildContent(man, md, sp, cov, reg) ==
    [uniqueIdentifier |-> "BookId",
     metadata |-> BuildMetadata(md, cov, reg),
     manifest |-> man,
     spine |-> BuildSpine(sp, cov, reg)]

\* buildTOC with the builder b after its build().
BuildTOC(md, b) ==
    [uid |-> GetElementTextByName("dc:identifier", md),
     depth |-> Digits(b.maxDepth),
     docTitle |-> GetElementTextByName("dc:title", md),
     navMap |-> b.result]

BuildCoverPageError(cov) ==
    IF GetMediaTypeThrows(cov) THEN CantGuessMediaType(cov)
    ELSE IF ~IsImageType(GetMediaTypeFromFilename(cov)) THEN CoverNotImage(cov)
    ELSE NoError

BuildCoverPage(md, cov) ==
    [title |-> GetElementTextByName("dc:title", md), src |-> cov]

\* One zip.file(name, data, options) call.
ZipEntry(name, kind, of, compression) ==
    [name |-> name, data |-> [kind |-> kind, of |-> of], compression |-> compression]

\* buildZip before its loop.
InitialZip(hasCoverPage) ==
    << ZipEntry(MIMETYPE_FILENAME, "application/epub+zip", <<>>, "STORE"),
       ZipEntry(CONTAINER_FILENAME, "container", <<>>, "default"),
       ZipEntry(PathJoin(CONTENT_DIR, CONTENT_FILENAME), "content", <<>>, "default"),
       ZipEntry(PathJoin(CONTENT_DIR, TOC_FILENAME), "toc", <<>>, "default") >>
    \o (IF hasCoverPage
        THEN << ZipEntry(PathJoin(CONTENT_DIR, COVER_PAGE_FILENAME), "coverPage", <<>>,
                         "default") >>
        ELSE <<>>)

\* The Promise.each of buildZip over one triple's file names, from the i-th:
\* st is [entries, error]; a rejection of readFile ends it.
RECURSIVE ZipFiles(_, _, _, _, _, _)
\* The Promise.each going on to the next file when readFile rejects.
RECURSIVE ZipFilesSkipUnreadable(_, _, _, _, _, _)
ZipFilesSkipUnreadable(root, dirPath, fileNames, unreadable, i, st) ==
    IF i > Len(fileNames) THEN st
    ELSE LET filePath == PathJoin(dirPath, fileNames[i])
             archivePath == PathJoin(CONTENT_DIR, SubstringFrom(filePath, Len(root) + 1))
         IN  ZipFilesSkipUnreadable(root, dirPath, fileNames, unreadable, i + 1,
                 [entries |-> IF fileNames[i] \in unreadable THEN st.entries
                              ELSE Append(st.entries,
                                       ZipEntry(archivePath, "file", filePath, "default")),
                  error |-> NoError])

ZipFiles(root, dirPath, fileNames, unreadable, i, st) ==
    IF i > Len(fileNames) THEN st
    ELSE LET filePath == PathJoin(dirPath, fileNames[i])
             archivePath == PathJoin(CONTENT_DIR, SubstringFrom(filePath, Len(root) + 1))
         IN  IF fileNames[i] \in unreadable
             THEN [entries |-> st.entries, error |-> ReadError(filePath)]
             ELSE ZipFiles(root, dirPath, fileNames, unreadable, i + 1,
                      [entries |-> Append(st.entries,
                                      ZipEntry(archivePath, "file", filePath, "default")),
                       error |-> NoError])

----------------------------------------------------------------------------
(* The inputs of the model. *)

SeqsUpTo(S, n) == UNION { [1..k -> S] : k \in 0..n }

\* The file names of one directory: no name twice.
DirListings(S, n) ==
    { l \in SeqsUpTo(S, n) : \A i, j \in 1..Len(l) : i # j => l[i] # l[j] }

A_HTML == <<"a", ".", "h", "t", "m", "l">>
B_HTML == <<"b", ".", "h", "t", "m", "l">>
M_HTML == <<"m", ".", "h", "t", "m", "l">>
N_XLS == <<"n", ".", "x", "l", "s">>
K_JPG == <<"k", ".", "j", "p", "g">>

InSubDir(name) == SubDir \o <<"/">> \o name

RootNames == {A_HTML, B_HTML, N_XLS}
SubNames == {K_JPG, A_HTML}
ContentDirs == { <<"r">>, <<"r", "/">> }
Covers == { <<>>, InSubDir(K_JPG) }
SpinePaths == {A_HTML, B_HTML, InSubDir(A_HTML)}

\* File names of every extension the switch knows, of extensions it does
\* not know, and without a "." at all.
MediaNames ==
    { A_HTML,
      <<"a", ".", "x", "h", "t", "m", "l">>,
      <<"a", ".", "p", "n", "g">>,
      <<"a", ".", "g", "i", "f">>,
      K_JPG,
      <<"a", ".", "s", "v", "g">>,
      <<"a", ".", "c", "s", "s">>,
      N_XLS,
      <<"a", ".", "H", "T", "M", "L">>,
      <<"R", "E", "A", "D", "M", "E">>,
      <<"c", "s", "s">> }

\* Root names that collide with the names of the package's own documents.
PackageNames == { A_HTML, B_HTML, COVER_PAGE_FILENAME, TOC_FILENAME }

\* Covers that are images and covers that are not, in the tree or not.
AnyCovers == { <<>>, InSubDir(K_JPG), B_HTML, N_XLS }

\* What can go wrong with the disk: the walk, or the read of a file.
Faults == { [walkFails |-> FALSE, unreadable |-> {}],
            [walkFails |-> TRUE, unreadable |-> {}],
            [walkFails |-> FALSE, unreadable |-> {B_HTML}] }

FaultyTrees(n) ==
    { Tree(r, s, f.walkFails, f.unreadable) :
        r \in DirListings(RootNames, n), s \in DirListings(SubNames, n), f \in Faults }

Trees(n) ==
    { Tree(r, s, FALSE, {}) : r \in DirListings(RootNames, n), s \in DirListings(SubNames, n) }

\* The relative paths of the files of a tree.
RelativePaths(tree) ==
    { tree.root[i] : i \in 1..Len(tree.root) }
    \cup { InSubDir(tree.sub[i]) : i \in 1..Len(tree.sub) }

\* An item of the toc: an array of an info object and the child items.
TocItem(label, href, children) ==
    [isArray |-> TRUE, label |-> label, href |-> href, children |-> children]

\* An item of the toc that is not an array.
NotAnArray == [isArray |-> FALSE, label |-> <<>>, href |-> <<>>, children |-> <<>>]

TocLabel == <<"section">>

TocHrefs == { A_HTML, A_HTML \o <<"#", "s">>, M_HTML \o <<"#", "s">> }

\* The forests of exactly n nodes: the first tree has k nodes, k - 1 of them
\* below its root, and n - k nodes follow it.
RECURSIVE ForestsOfSize(_)
ForestsOfSize(n) ==
    IF n = 0 THEN { <<>> }
    ELSE UNION { { << TocItem(TocLabel, h, c) >> \o r :
                     h \in TocHrefs, c \in ForestsOfSize(k - 1), r \in ForestsOfSize(n - k) }
                 : k \in 1..n }

Forests(n) == UNION { ForestsOfSize(k) : k \in 0..n }

NoSimpleMetadata ==
    [title |-> Undefined, author |-> Undefined, language |-> Undefined,
     isbn |-> Undefined, description |-> Undefined, tags |-> <<>>]

SimpleMetadatas ==
    [title : {Undefined, <<"A Book">>}, author : {Undefined, <<"An Author">>},
     language : {Undefined, <<"it">>},
     isbn : {Undefined}, description : {Undefined}, tags : {<<>>}]

\* Explicit metadata elements: with a text, with attributes only, and empty.
ExplicitElements ==
    { Element("dc:identifier", {<<"opf:scheme", "ISBN">>}, << <<"an-isbn">> >>),
      Element("dc:identifier", {<<"opf:scheme", "UUID">>}, << <<"an-uuid">> >>),
      Element("dc:language", {}, << <<"fr">> >>),
      Element("dc:language", {<<"xsi:type", "dcterms:RFC4646">>}, <<>>),
      Element("dc:title", {}, << <<"A Title">> >>),
      Element("dc:title", {}, <<>>),
      Element("dc:date", {}, << <<"a-date">> >>),
      Element("dc:creator", {}, << <<"a-creator">> >>),
      Element("dc:contributor", {<<"opf:role", "edt">>}, << <<"An Editor">> >>) }

\* The shorthand of the prepareMetadata tests: all six values.
FullSimpleMetadata ==
    [title |-> <<"The Purloined Letter">>, author |-> <<"E. A. Poe">>,
     language |-> <<"en_US">>, isbn |-> <<"1234567890">>,
     description |-> <<"<p>A good tale.</p>">>,
     tags |-> << <<"Fiction">>, <<"Thriller">> >>]

\* Shorthands with and without isbn, description and tags.
ExtendedSimpleMetadatas ==
    [title : {Undefined}, author : {Undefined}, language : {Undefined},
     isbn : {Undefined, FullSimpleMetadata.isbn},
     description : {Undefined, FullSimpleMetadata.description},
     tags : {<<>>, FullSimpleMetadata.tags}]
    \cup {FullSimpleMetadata}

\* The explicit list of the prepareMetadata tests: an element of every name
\* the shorthand can give, the UUID-scheme identifier without an id.
ExplicitFull ==
    << Element("dc:identifier", {<<"opf:scheme", "UUID">>}, << <<"an-uuid">> >>),
       Element("dc:identifier", {<<"opf:scheme", "ISBN">>}, << <<"an-isbn">> >>),
       Element("dc:date", {}, << <<"a-date">> >>),
       Element("dc:language", {}, << <<"a-language">> >>),
       Element("dc:title", {}, << <<"a-title">> >>),
       Element("dc:creator", {}, << <<"a-creator">> >>),
       Element("dc:description", {}, << <<"a-description">> >>),
       Element("dc:subject", {}, << <<"a-subject">> >>) >>

\* Explicit identifiers, one of them the package's unique identifier, and
\* an explicit description.
IdentifierElements ==
    { Element("dc:identifier", {<<"opf:scheme", "ISBN">>}, << <<"an-isbn">> >>),
      Element("dc:identifier", {<<"opf:scheme", "UUID">>}, << <<"an-uuid">> >>),
      Element("dc:identifier", {<<"id", "BookId">>, <<"opf:scheme", "UUID">>},
              << <<"urn:uuid:", "6f1b7f0a-3c52-4f0e-9d57-0b8f4a1c2e39">> >>),
      Element("dc:description", {}, << <<"a-description">> >>) }

UUIDs == {"d5f9547e-b630-4c01-86a1-5cd11b226776", "0e0f8a3c-5b1d-4c55-9f0e-2a6d1c9b7e41"}
Now == <<"2019-11-19T11:22:50.448Z">>

BaseTree == Tree(<<A_HTML, B_HTML>>, <<K_JPG>>, FALSE, {})
BaseToc == << TocItem(TocLabel, A_HTML \o <<"#", "s">>, <<>>) >>
BaseEntropy == [uuid |-> CHOOSE u \in UUIDs : TRUE, now |-> Now]

Options(dir, sp, items, cov, md, sm) ==
    [contentDir |-> dir, spine |-> sp, toc |-> items, cover |-> cov,
     metadata |-> md, simpleMetadata |-> sm, missing |-> {}]

----------------------------------------------------------------------------
(* The state before the constructor runs. *)

\* No second instance.
NoPeer == [pc |-> "none"]

InitInstance ==
    /\ pc = "new"
    /\ error = NoError
    /\ contentDir = <<>>
    /\ spine = <<>>
    /\ toc = <<>>
    /\ metadata = <<>>
    /\ cover = <<>>
    /\ fileName2id = EmptyMap
    /\ promise = NoPromise
    /\ walked = 0
    /\ counter = 0
    /\ manifest = <<>>
    /\ navMapBuilder = NewNavMapBuilder
    /\ docs = [container |-> NoDoc, content |-> NoDoc, toc |-> NoDoc, coverPage |-> NoDoc]
    /\ zip = <<>>
    /\ saved = NoDoc

\* Content trees, content roots, spines and covers vary.
Init ==
    /\ InitInstance
    /\ peer = NoPeer
    /\ mockSchema = FALSE
    /\ fs \in Trees(MaxFiles)
    /\ entropy = BaseEntropy
    /\ \E dir \in ContentDirs, sp \in SeqsUpTo(SpinePaths, MaxSpine), cov \in Covers :
          options = Options(dir, sp, BaseToc, cov, <<>>, NoSimpleMetadata)

\* Navigation forests vary.
InitNav ==
    /\ InitInstance
    /\ peer = NoPeer
    /\ mockSchema = FALSE
    /\ fs = BaseTree
    /\ entropy = BaseEntropy
    /\ \E items \in Forests(MaxNodes) :
          options = Options(<<"r">>, <<A_HTML>>, items, <<>>, <<>>, NoSimpleMetadata)

\* Explicit and shorthand metadata vary.
InitMeta ==
    /\ InitInstance
    /\ peer = NoPeer
    /\ mockSchema = FALSE
    /\ fs = BaseTree
    /\ entropy \in [uuid : UUIDs, now : {Now}]
    /\ \E md \in SeqsUpTo(ExplicitElements, MaxMeta), sm \in SimpleMetadatas :
          options = Options(<<"r">>, <<A_HTML>>, BaseToc, <<>>, md, sm)

\* Explicit identifiers and the whole shorthand vary, and the constructor is
\* called with and without a schema of the caller's.
InitFull ==
    /\ InitInstance
    /\ peer = NoPeer
    /\ mockSchema \in BOOLEAN
    /\ fs = BaseTree
    /\ entropy = BaseEntropy
    /\ \E md \in SeqsUpTo(IdentifierElements, MaxIds) \cup {ExplicitFull},
          sm \in ExtendedSimpleMetadatas :
          options = Options(<<"r">>, <<A_HTML>>, BaseToc, <<>>, md, sm)

\* Content trees with faults, covers and spines vary.
InitFail ==
    /\ InitInstance
    /\ peer = NoPeer
    /\ mockSchema = FALSE
    /\ fs \in FaultyTrees(MaxFiles)
    /\ entropy = BaseEntropy
    /\ \E sp \in SeqsUpTo({A_HTML, B_HTML}, MaxSpine), cov \in AnyCovers :
          options = Options(<<"r">>, sp, BaseToc, cov, <<>>, NoSimpleMetadata)

\* The file names of the content root vary over the extensions.
InitMedia ==
    /\ InitInstance
    /\ peer = NoPeer
    /\ mockSchema = FALSE
    /\ \E r \in DirListings(MediaNames, MaxMediaFiles) : fs = Tree(r, <<>>, FALSE, {})
    /\ entropy = BaseEntropy
    /\ options = Options(<<"r">>, <<>>, <<>>, <<>>, <<>>, NoSimpleMetadata)

\* Content trees with files named as the package's documents, content
\* roots, covers, spines and navigation forests vary.
InitZip ==
    /\ InitInstance
    /\ peer = NoPeer
    /\ mockSchema = FALSE
    /\ \E r \in DirListings(PackageNames, MaxFiles), s \in DirListings(SubNames, MaxFiles) :
          fs = Tree(r, s, FALSE, {})
    /\ entropy = BaseEntropy
    /\ \E dir \in ContentDirs, sp \in SeqsUpTo({A_HTML}, MaxSpine), cov \in Covers,
          items \in { <<>>, BaseToc } :
          options = Options(dir, sp, items, cov, <<>>, NoSimpleMetadata)

\* The required options, of which any may be missing.
RequiredOptions == {"contentDir", "spine", "toc"}

\* Navigation forests, well-formed and malformed at the top and below it.
CheckedTocs ==
    { BaseToc,
      << NotAnArray >>,
      << TocItem(TocLabel, <<>>, <<>>) >>,
      << TocItem(<<>>, A_HTML, <<>>) >>,
      << TocItem(TocLabel, A_HTML, << NotAnArray >>) >>,
      << TocItem(TocLabel, A_HTML, <<>>), TocItem(TocLabel, <<>>, <<>>) >> }

\* Explicit metadata, well-formed and not.
CheckedMetadatas ==
    { <<>>,
      << NotAnElement >>,
      << Element("dc:title", {}, << <<"A Title">> >>), NotAnElement >> }

\* Options valid and invalid in every way the constructor checks.
InitOpts ==
    /\ InitInstance
    /\ peer = NoPeer
    /\ mockSchema = FALSE
    /\ fs = BaseTree
    /\ entropy = BaseEntropy
    /\ \E sp \in SeqsUpTo({A_HTML, B_HTML}, MaxSpine), items \in CheckedTocs,
          md \in CheckedMetadatas, absent \in SUBSET RequiredOptions :
          options = [Options(<<"r">>, sp, items, <<>>, md, NoSimpleMetadata)
                        EXCEPT !.missing = absent]

\* Content trees vary; nothing refers to their files.
InitRace ==
    /\ InitInstance
    /\ peer = NoPeer
    /\ mockSchema = FALSE
    /\ fs \in Trees(MaxFiles)
    /\ entropy = BaseEntropy
    /\ options = Options(<<"r">>, <<>>, <<>>, <<>>, <<>>, NoSimpleMetadata)

\* Content trees and spines vary under a plain content root.
InitAgain ==
    /\ InitInstance
    /\ peer = NoPeer
    /\ mockSchema = FALSE
    /\ fs \in Trees(MaxFiles)
    /\ entropy = BaseEntropy
    /\ \E sp \in SeqsUpTo({A_HTML, B_HTML}, MaxSpine) :
          options = Options(<<"r">>, sp, <<>>, <<>>, <<>>, NoSimpleMetadata)

\* The options of the second instance: a cover, a title, a spine and a
\* nested toc of its own.
PeerOptions ==
    Options(<<"r">>, <<B_HTML>>,
            << TocItem(TocLabel, B_HTML,
                       << TocItem(TocLabel, A_HTML \o <<"#", "s">>, <<>>) >>),
               TocItem(TocLabel, B_HTML \o <<"#", "s">>, <<>>) >>,
            InSubDir(K_JPG), <<>>,
            [NoSimpleMetadata EXCEPT !.title = <<"A Book">>])

\* Two instances on one content tree, neither constructed yet; content
\* trees and the spine of the first vary.
InitPair ==
    /\ InitInstance
    /\ mockSchema = FALSE
    /\ fs \in Trees(MaxFiles)
    /\ entropy = BaseEntropy
    /\ \E sp \in SeqsUpTo({A_HTML}, MaxSpine) :
          options = Options(<<"r">>, sp, BaseToc, <<>>, <<>>, NoSimpleMetadata)
    /\ peer = [options |-> PeerOptions, pc |-> "new", error |-> NoError,
               contentDir |-> <<>>, spine |-> <<>>, toc |-> <<>>, metadata |-> <<>>,
               cover |-> <<>>, fileName2id |-> EmptyMap, promise |-> NoPromise,
               walked |-> 0, counter |-> 0, manifest |-> <<>>,
               navMapBuilder |-> NewNavMapBuilder,
               docs |-> [container |-> NoDoc, content |-> NoDoc, toc |-> NoDoc,
                         coverPage |-> NoDoc],
               zip |-> <<>>, saved |-> NoDoc]

\* The forests a kept NavMapBuilder is asked to build: well-formed ones
\* whose targets resolve or not, and malformed ones.
RebuildForests ==
    Forests(MaxNodes - 3) \cup CheckedTocs
    \cup { << TocItem(TocLabel, A_HTML,
                      << TocItem(TocLabel, A_HTML \o <<"#", "s">>, <<>>) >>) >>,
           << TocItem(TocLabel, A_HTML,
                      << TocItem(TocLabel, M_HTML \o <<"#", "s">>, <<>>) >>) >> }

\* Small navigation forests vary.
InitRebuild ==
    /\ InitInstance
    /\ peer = NoPeer
    /\ mockSchema = FALSE
    /\ fs = BaseTree
    /\ entropy = BaseEntropy
    /\ \E items \in Forests(MaxNodes - 2) :
          options = Options(<<"r">>, <<A_HTML>>, items, <<>>, <<>>, NoSimpleMetadata)

----------------------------------------------------------------------------
(* The operations. *)

\* new EPUBCreator(options)
Construct ==
    /\ pc = "new"
    /\ IF ~mockSchema /\ OptionsSchemaError(options)
       THEN /\ pc' = "failed"
            /\ error' = InvalidOptions
            /\ UNCHANGED << options, contentDir, spine, toc, metadata, cover >>
       ELSE IF ValidateJSMLThrows(options.metadata)
       THEN /\ pc' = "failed"
            /\ error' = InvalidJSML
            /\ contentDir' = options.contentDir
            /\ spine' = options.spine
            /\ toc' = options.toc
            /\ UNCHANGED << options, metadata, cover >>
       ELSE /\ pc' = "ready"
            /\ contentDir' = options.contentDir
            /\ spine' = options.spine
            /\ toc' = options.toc
            /\ LET prepared == PrepareMetadata(options.metadata, options.simpleMetadata,
                                               entropy.uuid, entropy.now)
               IN  /\ metadata' = prepared.result
                   /\ options' = [options EXCEPT !.metadata = prepared.argument]
            /\ cover' = options.cover
            /\ UNCHANGED error
    /\ UNCHANGED << mockSchema, peer, fs, entropy, fileName2id, promise, walked, counter,
                    manifest, navMapBuilder, docs, zip, saved >>

\* create(fileName), up to the first await of buildManifest.
Create ==
    /\ pc = "ready"
    /\ pc' = "manifest"
    /\ manifest' = InitialManifest(cover)
    /\ counter' = 1
    /\ walked' = 1
    /\ promise' = PendingPromise
    /\ UNCHANGED << options, mockSchema, peer, fs, entropy, error, contentDir, spine, toc, metadata,
                    cover, fileName2id, navMapBuilder, docs, zip, saved >>

\* The walker resolves the promise it yielded last.
WalkResolve ==
    /\ promise = PendingPromise
    /\ promise' = IF fs.walkFails THEN RejectedPromise(WalkError(contentDir))
                   ELSE ResolvedPromise(WalkTriples(contentDir, fs)[walked])
    /\ UNCHANGED << options, mockSchema, peer, fs, entropy, pc, error, contentDir, spine, toc, metadata,
                    cover, fileName2id, walked, counter, manifest, navMapBuilder,
                    docs, zip, saved >>

\* buildManifest's loop body for the triple awaited, and the generator's next
\* step: another promise, or the end of the walk and of buildManifest.
BuildManifestStep ==
    /\ pc = "manifest"
    /\ promise.state \in {"resolved", "rejected"}
    /\ LET st == IF promise.state = "rejected"
                 THEN [counter |-> counter, reg |-> fileName2id,
                       manifest |-> manifest, error |-> promise.reason]
                 ELSE ManifestFiles(contentDir, promise.value.dirPath,
                                    promise.value.fileNames, 1,
                                    [counter |-> counter, reg |-> fileName2id,
                                     manifest |-> manifest, error |-> NoError])
           more == MoreTriples(walked, WalkTriples(contentDir, fs))
       IN  /\ counter' = st.counter
           /\ fileName2id' = st.reg
           /\ manifest' = st.manifest
           /\ error' = st.error
           /\ pc' = IF st.error # NoError THEN "failed"
                    ELSE IF more THEN "manifest" ELSE "assemble"
           /\ promise' = IF st.error = NoError /\ more THEN PendingPromise ELSE NoPromise
           /\ walked' = IF st.error = NoError /\ more THEN walked + 1 ELSE walked
    /\ UNCHANGED << options, mockSchema, peer, fs, entropy, contentDir, spine, toc, metadata, cover,
                    navMapBuilder, docs, zip, saved >>

\* create() from the return of buildManifest to the first await of buildZip:
\* buildContainer, buildContent, buildTOC, buildCoverPage and the zip.file
\* calls that precede the walk.  The first throw ends it.
Assemble ==
    /\ pc = "assemble"
    /\ LET nav == NavMapBuild(NewNavMapBuilder, toc, fileName2id)
           contentError ==
               IF BuildMetadataThrows(cover, fileName2id) THEN FileNotFound(cover)
               ELSE IF BuildSpineThrows(spine, fileName2id)
                    THEN BuildSpineError(spine, fileName2id)
                    ELSE NoError
           coverError == IF cover # <<>> THEN BuildCoverPageError(cover) ELSE NoError
           err == IF contentError # NoError THEN contentError
                  ELSE IF nav.error # NoError THEN nav.error
                  ELSE coverError
       IN  /\ error' = err
           /\ navMapBuilder' = IF contentError = NoError THEN nav.builder ELSE navMapBuilder
           /\ docs' = [container |-> BuildContainer,
                       content |-> IF contentError = NoError
                                   THEN BuildContent(manifest, metadata, spine, cover,
                                                     fileName2id)
                                   ELSE NoDoc,
                       toc |-> IF contentError = NoError /\ nav.error = NoError
                               THEN BuildTOC(metadata, nav.builder) ELSE NoDoc,
                       coverPage |-> IF err = NoError /\ cover # <<>>
                                     THEN BuildCoverPage(metadata, cover) ELSE NoDoc]
           /\ zip' = IF err = NoError THEN InitialZip(cover # <<>>) ELSE zip
           /\ pc' = IF err = NoError THEN "zip" ELSE "failed"
           /\ promise' = IF err = NoError THEN PendingPromise ELSE NoPromise
           /\ walked' = IF err = NoError THEN 1 ELSE walked
    /\ UNCHANGED << options, mockSchema, peer, fs, entropy, contentDir, spine, toc, metadata, cover,
                    fileName2id, counter, manifest, saved >>

\* buildZip's loop body for the triple awaited, and the generator's next step.
BuildZipStep ==
    /\ pc = "zip"
    /\ promise.state \in {"resolved", "rejected"}
    /\ LET st == IF promise.state = "rejected"
                 THEN [entries |-> zip, error |-> promise.reason]
                 ELSE ZipFiles(contentDir, promise.value.dirPath, promise.value.fileNames,
                               fs.unreadable, 1, [entries |-> zip, error |-> NoError])
           more == MoreTriples(walked, WalkTriples(contentDir, fs))
       IN  /\ zip' = st.entries
           /\ error' = st.error
           /\ pc' = IF st.error # NoError THEN "failed"
                    ELSE IF more THEN "zip" ELSE "save"
           /\ promise' = IF st.error = NoError /\ more THEN PendingPromise ELSE NoPromise
           /\ walked' = IF st.error = NoError /\ more THEN walked + 1 ELSE walked
    /\ UNCHANGED << options, mockSchema, peer, fs, entropy, contentDir, spine, toc, metadata,
                    cover, fileName2id, counter, manifest, navMapBuilder, docs, saved >>

\* saveZip: the archive is generated and written.
SaveZip ==
    /\ pc = "save"
    /\ pc' = "done"
    /\ saved' = [entries |-> zip]
    /\ UNCHANGED << options, mockSchema, peer, fs, entropy, error, contentDir, spine, toc, metadata,
                    cover, fileName2id, promise, walked, counter, manifest,
                    navMapBuilder, docs, zip >>

\* The content tree changes while create() runs: another process adds a
\* file to the content root, or removes the root's last file.
TreeChanges ==
    /\ pc \in {"manifest", "assemble", "zip"}
    /\ \E root \in { Append(fs.root, M_HTML), SubSeq(fs.root, 1, Len(fs.root) - 1) } :
          /\ \A i, j \in 1..Len(root) : i # j => root[i] # root[j]
          /\ root # fs.root
          /\ fs' = [fs EXCEPT !.root = root]
    /\ UNCHANGED << options, mockSchema, peer, entropy, pc, error, contentDir, spine, toc,
                    metadata, cover, fileName2id, promise, walked, counter, manifest,
                    navMapBuilder, docs, zip, saved >>

\* create(fileName) called again on an instance whose earlier create() has
\* settled, up to the first await of buildManifest: the locals of create()
\* and of buildManifest are new, the fields of the instance are as the
\* earlier call left them.
CreateAgain ==
    /\ pc \in {"done", "failed"}
    /\ error \notin {InvalidOptions, InvalidJSML}
    /\ pc' = "manifest"
    /\ error' = NoError
    /\ manifest' = InitialManifest(cover)
    /\ counter' = 1
    /\ walked' = 1
    /\ promise' = PendingPromise
    /\ navMapBuilder' = NewNavMapBuilder
    /\ docs' = [container |-> NoDoc, content |-> NoDoc, toc |-> NoDoc, coverPage |-> NoDoc]
    /\ zip' = <<>>
    /\ UNCHANGED << options, mockSchema, peer, fs, entropy, contentDir, spine, toc, metadata,
                    cover, fileName2id, saved >>

\* The content tree changes between two calls of create(): a file is added
\* to the content root, or the root's last file is removed.
TreeChangesBetweenBuilds ==
    /\ pc \in {"done", "failed"}
    /\ error \notin {InvalidOptions, InvalidJSML}
    /\ \E root \in { Append(fs.root, M_HTML), SubSeq(fs.root, 1, Len(fs.root) - 1) } :
          /\ \A i, j \in 1..Len(root) : i # j => root[i] # root[j]
          /\ root # fs.root
          /\ fs' = [fs EXCEPT !.root = root]
    /\ UNCHANGED << options, mockSchema, peer, entropy, pc, error, contentDir, spine, toc,
                    metadata, cover, fileName2id, promise, walked, counter, manifest,
                    navMapBuilder, docs, zip, saved >>

\* The fields of the instance that is running, and the locals and the
\* position of its create().
Instance ==
    [options |-> options, pc |-> pc, error |-> error, contentDir |-> contentDir,
     spine |-> spine, toc |-> toc, metadata |-> metadata, cover |-> cover,
     fileName2id |-> fileName2id, promise |-> promise, walked |-> walked,
     counter |-> counter, manifest |-> manifest, navMapBuilder |-> navMapBuilder,
     docs |-> docs, zip |-> zip, saved |-> saved]

\* A module-level counter: the counter of buildManifest is not part of what
\* the two instances exchange.
YieldSharingCounter ==
    /\ peer # NoPeer
    /\ peer' = Instance
    /\ options' = peer.options
    /\ pc' = peer.pc
    /\ error' = peer.error
    /\ contentDir' = peer.contentDir
    /\ spine' = peer.spine
    /\ toc' = peer.toc
    /\ metadata' = peer.metadata
    /\ cover' = peer.cover
    /\ fileName2id' = peer.fileName2id
    /\ promise' = peer.promise
    /\ walked' = peer.walked
    /\ manifest' = peer.manifest
    /\ navMapBuilder' = peer.navMapBuilder
    /\ docs' = peer.docs
    /\ zip' = peer.zip
    /\ saved' = peer.saved
    /\ UNCHANGED << mockSchema, fs, entropy, counter >>

\* The event loop turns to the other instance: the one that was running is
\* suspended at its await (or has not started, or has settled) with its
\* fields and locals, and the other goes on with its own.
Yield ==
    /\ peer # NoPeer
    /\ peer' = Instance
    /\ options' = peer.options
    /\ pc' = peer.pc
    /\ error' = peer.error
    /\ contentDir' = peer.contentDir
    /\ spine' = peer.spine
    /\ toc' = peer.toc
    /\ metadata' = peer.metadata
    /\ cover' = peer.cover
    /\ fileName2id' = peer.fileName2id
    /\ promise' = peer.promise
    /\ walked' = peer.walked
    /\ counter' = peer.counter
    /\ manifest' = peer.manifest
    /\ navMapBuilder' = peer.navMapBuilder
    /\ docs' = peer.docs
    /\ zip' = peer.zip
    /\ saved' = peer.saved
    /\ UNCHANGED << mockSchema, fs, entropy >>

\* build(items) called on the NavMapBuilder of a finished build, as a
\* caller that keeps the builder may do; a throw is the caller's to catch.
Rebuild ==
    /\ pc = "done"
    /\ \E items \in RebuildForests :
          LET nav == NavMapBuild(navMapBuilder, items, fileName2id)
          IN  /\ navMapBuilder' = nav.builder
              /\ error' = nav.error
    /\ UNCHANGED << options, mockSchema, peer, fs, entropy, pc, contentDir, spine, toc,
                    metadata, cover, fileName2id, promise, walked, counter, manifest,
                    docs, zip, saved >>

Next ==
    \/ Construct
    \/ Create
    \/ WalkResolve
    \/ BuildManifestStep
    \/ Assemble
    \/ BuildZipStep
    \/ SaveZip

Spec == Init /\ [][Next]_vars
SpecNav == InitNav /\ [][Next]_vars
SpecMeta == InitMeta /\ [][Next]_vars
SpecFull == InitFull /\ [][Next]_vars
SpecFail == InitFail /\ [][Next]_vars
SpecMedia == InitMedia /\ [][Next]_vars
SpecZip == InitZip /\ [][Next]_vars
SpecOpts == InitOpts /\ [][Next]_vars

\* create() on a content tree that other processes change.
NextRace == Next \/ TreeChanges
SpecRace == InitRace /\ [][NextRace]_vars

\* Two instances whose builds interleave at their awaits.
NextPair == Next \/ Yield
SpecPair == InitPair /\ [][NextPair]_vars

\* A build, and then calls of build(items) on its NavMapBuilder.
NextRebuild == Next \/ Rebuild
SpecRebuild == InitRebuild /\ [][NextRebuild]_vars

\* create() called again and again on one instance, the content tree
\* changing between the calls.
NextAgain == Next \/ CreateAgain \/ TreeChangesBetweenBuilds
SpecAgain == InitAgain /\ [][NextAgain]_vars

----------------------------------------------------------------------------
(* What the claims are stated with. *)

\* The nodes of a forest in pre-order: a node, its children, its next sibling.
RECURSIVE PreOrder(_)
PreOrder(items) ==
    IF items = <<>> THEN <<>>
    ELSE << Head(items) >> \o PreOrder(Head(items).children) \o PreOrder(Tail(items))

\* The nesting depth of a forest: 0 if empty, top-level nodes at depth 1.
RECURSIVE DepthOf(_)
DepthOf(items) ==
    IF items = <<>> THEN 0
    ELSE LET here == 1 + DepthOf(Head(items).children)
             rest == DepthOf(Tail(items))
         IN  IF here > rest THEN here ELSE rest

IsDigit(c) == \E d \in 1..10 : DigitChars[d] = c

\* The number a string of decimal digits denotes.
RECURSIVE NumberOf(_)
NumberOf(s) ==
    IF s = <<>> THEN 0
    ELSE 10 * NumberOf(SubSeq(s, 1, Len(s) - 1))
         + (CHOOSE d \in 0..9 : DigitChars[d + 1] = s[Len(s)])

\* p is h without its fragment: h itself if it has no "#", else what
\* precedes the "#" that starts the fragment.
IsFragmentStripped(p, h) ==
    \/ p = h /\ \A i \in 1..Len(h) : h[i] # "#"
    \/ /\ Len(p) < Len(h)
       /\ SubSeq(h, 1, Len(p)) = p
       /\ h[Len(p) + 1] = "#"
       /\ \A i \in (Len(p) + 2)..Len(h) : h[i] # "#"

\* The pre-order positions of the nodes whose target the registry lacks.
Unresolved(items, reg) ==
    { k \in 1..Len(PreOrder(items)) :
        \A p \in DOMAIN reg : ~IsFragmentStripped(p, PreOrder(items)[k].href) }

\* C1: after build() of a non-empty forest whose targets all resolve, the
\* k-th navPoint in pre-order is made from the k-th item in pre-order, has
\* as many children as it, has playOrder k written in decimal, and has the
\* id "ncx-" followed by k zero-padded to 6 digits; so the playOrders are
\* exactly 1..N, N the number of nodes of the forest.
C1_PlayOrderPreOrder ==
    (navMapBuilder.built /\ toc # <<>>) =>
        LET items == PreOrder(toc)
            points == PreOrder(navMapBuilder.result)
        IN  /\ Len(points) = Len(items)
            /\ \A k \in 1..Len(points) :
                  /\ points[k].src = items[k].href
                  /\ points[k].label = items[k].label
                  /\ Len(points[k].children) = Len(items[k].children)
                  /\ \A c \in 1..Len(points[k].playOrder) : IsDigit(points[k].playOrder[c])
                  /\ points[k].playOrder[1] # "0"
                  /\ NumberOf(points[k].playOrder) = k
                  /\ Len(points[k].id) = 10
                  /\ SubSeq(points[k].id, 1, 4) = <<"n", "c", "x", "-">>
                  /\ \A c \in 5..10 : IsDigit(points[k].id[c])
                  /\ NumberOf(SubSeq(points[k].id, 5, 10)) = k

\* A forest of four nodes on three levels has been built: 1, 1.1, 1.1.1, 2.
C1_Witness ==
    /\ navMapBuilder.built
    /\ Len(toc) = 2
    /\ Len(toc[1].children) = 1
    /\ Len(toc[1].children[1].children) = 1
    /\ navMapBuilder.result[2].playOrder = <<"4">>
    /\ navMapBuilder.result[1].children[1].children[1].id
         = <<"n", "c", "x", "-", "0", "0", "0", "0", "0", "3">>

\* C2: after a successful build() maxDepth is the nesting depth of the
\* forest (0 and an empty navMap for the empty forest, 1 for a flat list),
\* and the toc document's dtb:depth is that number written in decimal.
C2_MaxDepth ==
    navMapBuilder.built =>
        /\ navMapBuilder.maxDepth = DepthOf(toc)
        /\ (toc = <<>> => navMapBuilder.maxDepth = 0 /\ navMapBuilder.result = <<>>)
        /\ ((toc # <<>> /\ \A i \in 1..Len(toc) : toc[i].children = <<>>)
              => navMapBuilder.maxDepth = 1)
        /\ (docs.toc # NoDoc =>
              /\ \A c \in 1..Len(docs.toc.depth) : IsDigit(docs.toc.depth[c])
              /\ NumberOf(docs.toc.depth) = DepthOf(toc))

\* The deepest node comes first and a flat sibling follows it.
C2_Witness ==
    /\ navMapBuilder.built
    /\ Len(toc) = 2
    /\ DepthOf(<< toc[1] >>) = 3
    /\ toc[2].children = <<>>
    /\ docs.toc # NoDoc
    /\ docs.toc.depth = <<"3">>

\* C4: once the registry is complete and the package document is built, a
\* forest with a node, at any depth, whose fragment-stripped target the
\* registry lacks makes the build fail with "File not found in manifest"
\* naming the stripped target of the first such node in pre-order; no
\* navigation tree is built, no toc document exists, and the archive
\* writer has been given nothing.
C4_UnresolvedTarget ==
    (docs.content # NoDoc /\ Unresolved(toc, fileName2id) # {}) =>
        LET first == CHOOSE k \in Unresolved(toc, fileName2id) :
                        \A j \in Unresolved(toc, fileName2id) : k <= j
        IN  /\ pc = "failed"
            /\ error.kind = "File not found in manifest"
            /\ IsFragmentStripped(error.path, PreOrder(toc)[first].href)
            /\ ~navMapBuilder.built
            /\ navMapBuilder.result = <<>>
            /\ docs.toc = NoDoc
            /\ zip = <<>>
            /\ saved = NoDoc

\* The top-level node resolves and its only child does not.
C4_Witness ==
    /\ pc = "failed"
    /\ docs.content # NoDoc
    /\ Len(toc) = 1
    /\ toc[1].href = A_HTML
    /\ Len(toc[1].children) = 1
    /\ toc[1].children[1].href = M_HTML \o <<"#", "s">>
    /\ error = FileNotFound(M_HTML)

\* buildManifest has returned its manifest.
ManifestBuilt == pc \in {"assemble", "zip", "save", "done"} \/ docs.container # NoDoc

\* The relative paths of the files of a tree in the walker's order.
WalkOrder(tree) ==
    tree.root \o [i \in 1..Len(tree.sub) |-> InSubDir(tree.sub[i])]

\* C3: once buildManifest has completed, the paths the registry resolves
\* are exactly the relative paths of the files of the content tree.
C3_RegistryRoundTrip ==
    ManifestBuilt => DOMAIN fileName2id = RelativePaths(fs)

\* C3 where it holds: under a content root written without a trailing
\* separator.
C3_PlainRoot ==
    (ManifestBuilt /\ contentDir = <<"r">>) => DOMAIN fileName2id = RelativePaths(fs)

\* C5: the spine of the package document is the itemref to "id-cover" if
\* and only if a cover is configured, then the registry's identifier of
\* each declared spine path, one per path in declaration order; its toc
\* attribute is "id-toc".
C5_Spine ==
    docs.content # NoDoc =>
        LET refs == docs.content.spine.itemrefs
            off == IF options.cover # <<>> THEN 1 ELSE 0
        IN  /\ docs.content.spine.toc = <<"i", "d", "-", "t", "o", "c">>
            /\ Len(refs) = Len(options.spine) + off
            /\ (options.cover # <<>> =>
                  refs[1] = <<"i", "d", "-", "c", "o", "v", "e", "r">>)
            /\ (options.cover = <<>> =>
                  \A i \in 1..Len(refs) : refs[i] # <<"i", "d", "-", "c", "o", "v", "e", "r">>)
            /\ \A i \in 1..Len(options.spine) :
                  /\ options.spine[i] \in DOMAIN fileName2id
                  /\ refs[off + i] = fileName2id[options.spine[i]]

\* A cover and a spine of two paths declared against the walk order.
C5_Witness ==
    /\ docs.content # NoDoc
    /\ options.cover = InSubDir(K_JPG)
    /\ options.spine = << B_HTML, A_HTML >>
    /\ fs.root = << A_HTML, B_HTML >>
    /\ Len(docs.content.spine.itemrefs) = 3

\* C6: the manifest buildManifest returns is the "id-toc" item, the
\* "id-cover" item if and only if a cover is configured, then one item per
\* file in walk order, the k-th with the id "id-" followed by k zero-padded
\* to 6 digits and its relative path as href; the registry maps that
\* relative path to that id.
C6_ManifestOrder ==
    ManifestBuilt =>
        LET files == WalkOrder(fs)
            off == IF cover # <<>> THEN 2 ELSE 1
        IN  /\ Len(manifest) = off + Len(files)
            /\ manifest[1].id = <<"i", "d", "-", "t", "o", "c">>
            /\ (cover # <<>> => manifest[2].id = <<"i", "d", "-", "c", "o", "v", "e", "r">>)
            /\ \A k \in 1..Len(files) :
                  /\ manifest[off + k].href = files[k]
                  /\ Len(manifest[off + k].id) = 9
                  /\ SubSeq(manifest[off + k].id, 1, 3) = <<"i", "d", "-">>
                  /\ NumberOf(SubSeq(manifest[off + k].id, 4, 9)) = k
                  /\ files[k] \in DOMAIN fileName2id
                  /\ fileName2id[files[k]] = manifest[off + k].id

\* C6 where it holds: under a content root written without a trailing
\* separator.
C6_PlainRoot ==
    contentDir = <<"r">> => C6_ManifestOrder

\* The constructor has returned an instance.
Constructed == pc # "new" /\ error # InvalidOptions

\* How many elements of a metadata list have the tag.
CountTag(md, tag) == Cardinality({ i \in 1..Len(md) : md[i].tag = tag })

\* The opf:scheme values that mark a UUID identifier.
UuidSchemes == {"uuid", "UUID"}

IsUuidIdentifier(e) ==
    e.tag = "dc:identifier" /\ \E v \in UuidSchemes : <<"opf:scheme", v>> \in e.attrs

RequiredTags == {"dc:identifier", "dc:date", "dc:language", "dc:title"}

\* C7: the merged metadata of every instance holds a dc:identifier with a
\* UUID scheme and the id "BookId", the one the package's
\* unique-identifier attribute names.
C7_BookIdExists ==
    Constructed =>
        \E i \in 1..Len(metadata) :
            IsUuidIdentifier(metadata[i]) /\ <<"id", "BookId">> \in metadata[i].attrs

\* C8: for each required tag, the merged metadata has one element more
\* than the explicit list if the explicit list has no element of that tag,
\* and as many as it if it has one.
C8_RequiredDefaults ==
    Constructed =>
        \A tag \in RequiredTags :
            CountTag(metadata, tag) =
                IF CountTag(options.metadata, tag) = 0 THEN 1
                ELSE CountTag(options.metadata, tag)

C10_ShorthandCopied ==
    LET sm == options.simpleMetadata
        one(tag) == CHOOSE i \in 1..Len(metadata) : metadata[i].tag = tag
    IN  (/\ Constructed
         /\ sm.title # Undefined /\ sm.language # Undefined /\ sm.author # Undefined
         /\ \A tag \in {"dc:title", "dc:language", "dc:creator", "dc:identifier"} :
               CountTag(options.metadata, tag) = 0)
        => /\ CountTag(metadata, "dc:title") = 1
           /\ metadata[one("dc:title")].children = << sm.title >>
           /\ CountTag(metadata, "dc:language") = 1
           /\ metadata[one("dc:language")].children = << sm.language >>
           /\ CountTag(metadata, "dc:creator") = 1
           /\ metadata[one("dc:creator")].children = << sm.author >>
           /\ Cardinality({ i \in 1..Len(metadata) : IsUuidIdentifier(metadata[i]) }) = 1
           /\ \A i \in 1..Len(metadata) :
                 IsUuidIdentifier(metadata[i]) =>
                    \E u \in UUIDs : metadata[i].children = << <<"urn:uuid:", u>> >>

\* The shorthand gives all three and the explicit list holds other elements.
C10_Witness ==
    /\ Constructed
    /\ options.simpleMetadata.title = <<"A Book">>
    /\ options.simpleMetadata.language = <<"it">>
    /\ options.simpleMetadata.author = <<"An Author">>
    /\ Len(options.metadata) = 2
    /\ options.metadata[1].tag = "dc:contributor"
    /\ options.metadata[2].tag = "dc:date"
    /\ Len(metadata) = 6

\* The elements of the merged metadata that follow the explicit list.
Synthesized ==
    SubSeq(metadata, Len(options.metadata) + 1, Len(metadata))

WithTag(md, tag) == SelectSeq(md, LAMBDA e : e.tag = tag)

IsIsbnIdentifier(e) ==
    e.tag = "dc:identifier" /\ <<"opf:scheme", "ISBN">> \in e.attrs

\* C11: options whose shorthand gives isbn, description and tags are
\* accepted by the constructor, and the elements that follow the explicit
\* list hold an ISBN-scheme dc:identifier with the isbn if the explicit list
\* has no dc:identifier, a dc:description with the description if it has no
\* dc:description, and one dc:subject per tag in tag order if it has no
\* dc:subject; none of them is made without its shorthand value.
C11_ShorthandExtras ==
    LET sm == options.simpleMetadata
        explicit == options.metadata
    IN  pc # "new" =>
          /\ error # InvalidOptions
          /\ (sm.isbn # Undefined /\ CountTag(explicit, "dc:identifier") = 0) =>
                SelectSeq(Synthesized, IsIsbnIdentifier) =
                    << Element("dc:identifier", {<<"opf:scheme", "ISBN">>}, << sm.isbn >>) >>
          /\ (sm.isbn = Undefined \/ \E i \in 1..Len(explicit) : IsIsbnIdentifier(explicit[i])) =>
                SelectSeq(Synthesized, IsIsbnIdentifier) = <<>>
          /\ WithTag(Synthesized, "dc:description") =
                IF sm.description # Undefined /\ CountTag(explicit, "dc:description") = 0
                THEN << Element("dc:description", {}, << sm.description >>) >>
                ELSE <<>>
          /\ WithTag(Synthesized, "dc:subject") =
                IF CountTag(explicit, "dc:subject") = 0
                THEN [i \in 1..Len(sm.tags) |-> Element("dc:subject", {}, << sm.tags[i] >>)]
                ELSE <<>>

\* C12: with no explicit metadata and no shorthand the merged metadata is
\* four elements: the dc:identifier with id "BookId", opf:scheme "UUID" and
\* the text "urn:uuid:" and a UUID, a dc:date holding the time of the call,
\* dc:language "en" and dc:title "Untitled".
C12_DefaultMetadata ==
    (Constructed /\ options.metadata = <<>> /\ options.simpleMetadata = NoSimpleMetadata) =>
        /\ Len(metadata) = 4
        /\ metadata[1].tag = "dc:identifier"
        /\ metadata[1].attrs = {<<"id", "BookId">>, <<"opf:scheme", "UUID">>}
        /\ \E u \in UUIDs : metadata[1].children = << <<"urn:uuid:", u>> >>
        /\ metadata[2] = Element("dc:date", {}, << entropy.now >>)
        /\ metadata[3] = Element("dc:language", {}, << <<"en">> >>)
        /\ metadata[4] = Element("dc:title", {}, << <<"Untitled">> >>)

\* C12 where it holds: with the scheme marker read in either case.
C12_EitherCase ==
    (Constructed /\ options.metadata = <<>> /\ options.simpleMetadata = NoSimpleMetadata) =>
        /\ Len(metadata) = 4
        /\ IsUuidIdentifier(metadata[1])
        /\ <<"id", "BookId">> \in metadata[1].attrs
        /\ Cardinality(metadata[1].attrs) = 2
        /\ \E u \in UUIDs : metadata[1].children = << <<"urn:uuid:", u>> >>
        /\ metadata[2] = Element("dc:date", {}, << entropy.now >>)
        /\ metadata[3] = Element("dc:language", {}, << <<"en">> >>)
        /\ metadata[4] = Element("dc:title", {}, << <<"Untitled">> >>)

\* C13: when the explicit list has an element of every name and the
\* shorthand gives all six values, the merged metadata is the eight
\* explicit elements in their order, the UUID-scheme identifier with the id
\* "BookId" added to its attributes.
C13_NothingSynthesizedBookId ==
    (Constructed /\ options.metadata = ExplicitFull
       /\ options.simpleMetadata = FullSimpleMetadata) =>
        /\ Len(metadata) = 8
        /\ \A i \in 2..8 : metadata[i] = ExplicitFull[i]
        /\ metadata[1] = [ExplicitFull[1] EXCEPT
                             !.attrs = @ \cup {<<"id", "BookId">>}]

\* C13 where it holds: nothing is synthesized.
C13_NothingSynthesized ==
    (Constructed /\ options.metadata = ExplicitFull
       /\ options.simpleMetadata = FullSimpleMetadata) =>
        metadata = ExplicitFull

\* C14: the dtb:uid of the navigation document is the text of the
\* dc:identifier of the merged metadata that carries the id "BookId",
\* wherever in the list it stands.
C14_UidIsBookId ==
    docs.toc # NoDoc =>
        \A i \in 1..Len(metadata) :
            (metadata[i].tag = "dc:identifier" /\ <<"id", "BookId">> \in metadata[i].attrs)
                => docs.toc.uid = FirstChild(metadata[i])

\* C14 where it holds: the BookId identifier is the first dc:identifier.
C14_FirstIdentifier ==
    docs.toc # NoDoc =>
        docs.toc.uid = FirstChild(WithTag(metadata, "dc:identifier")[1])

EndsWith(s, suffix) ==
    Len(suffix) <= Len(s) /\ SubSeq(s, Len(s) - Len(suffix) + 1, Len(s)) = suffix

ImageSuffixes ==
    { <<".", "p", "n", "g">>, <<".", "g", "i", "f">>, <<".", "j", "p", "g">>,
      <<".", "s", "v", "g">> }

MappedSuffixes ==
    ImageSuffixes \cup { <<".", "h", "t", "m", "l">>, <<".", "x", "h", "t", "m", "l">>,
                         <<".", "c", "s", "s">> }

HasMappedExtension(name) == \E x \in MappedSuffixes : EndsWith(name, x)
IsImageName(name) == \E x \in ImageSuffixes : EndsWith(name, x)

\* The file names of a tree, directory by directory.
FileNames(tree) ==
    { tree.root[i] : i \in 1..Len(tree.root) } \cup { tree.sub[i] : i \in 1..Len(tree.sub) }

\* The options and the disk are such that some stage of create() must fail.
Faulty ==
    \/ fs.walkFails
    \/ \E f \in FileNames(fs) : ~HasMappedExtension(f)
    \/ \E f \in FileNames(fs) : f \in fs.unreadable
    \/ options.cover # <<>> /\ options.cover \notin RelativePaths(fs)
    \/ options.cover # <<>> /\ ~IsImageName(options.cover)
    \/ \E i \in 1..Len(options.spine) : options.spine[i] \notin RelativePaths(fs)
    \/ \E k \in 1..Len(PreOrder(options.toc)) :
          \A p \in RelativePaths(fs) : ~IsFragmentStripped(p, PreOrder(options.toc)[k].href)

\* C15: when some stage of create() must fail, saveZip is never reached
\* and nothing is written; a failed build holds its error, goes no
\* further, and has registered nothing with the archive writer unless it
\* failed reading a content file; and a document registered with the
\* archive writer is one its stage returned.
C15_FailureAborts ==
    /\ Faulty => (saved = NoDoc /\ pc \notin {"save", "done"})
    /\ pc = "failed" =>
          /\ error # NoError
          /\ saved = NoDoc
          /\ ~ENABLED Next
          /\ (error.kind # "read error" => zip = <<>>)
    /\ \A i \in 1..Len(zip) :
          /\ zip[i].data.kind = "content" => docs.content # NoDoc
          /\ zip[i].data.kind = "toc" => docs.toc # NoDoc
          /\ zip[i].data.kind = "coverPage" => docs.coverPage # NoDoc

\* The second file of the root cannot be read: the build has failed with
\* the documents and the first file registered.
C15_Witness ==
    /\ pc = "failed"
    /\ error = ReadError(<<"r", "/">> \o B_HTML)
    /\ fs.root = << A_HTML, B_HTML >>
    /\ options.cover = InSubDir(K_JPG)
    /\ Len(zip) = 6
    /\ saved = NoDoc

\* The position in walk order of the first file whose extension maps to no
\* media type.
FirstUnmapped(tree) ==
    CHOOSE k \in 1..Len(WalkOrder(tree)) :
        /\ ~HasMappedExtension(WalkOrder(tree)[k])
        /\ \A j \in 1..(k - 1) : HasMappedExtension(WalkOrder(tree)[j])

\* C16: when a file of the content tree has an extension that maps to no
\* media type, buildManifest ends at the first such file in walk order
\* with an error naming it, after counting that file and no later one, and
\* the build has failed: no document is built, no navigation tree, nothing
\* is registered with the archive writer and nothing is written.
C16_UnsupportedExtension ==
    (/\ Constructed
     /\ ~fs.walkFails
     /\ \E f \in FileNames(fs) : ~HasMappedExtension(f)
     /\ (pc \notin {"ready", "manifest"} \/ counter > FirstUnmapped(fs)))
    => LET k == FirstUnmapped(fs)
           name == IF k <= Len(fs.root) THEN fs.root[k] ELSE fs.sub[k - Len(fs.root)]
       IN  /\ pc = "failed"
           /\ error = CantGuessMediaType(name)
           /\ counter = k + 1
           /\ Len(manifest) = (IF cover # <<>> THEN 2 ELSE 1) + k - 1
           /\ docs = [container |-> NoDoc, content |-> NoDoc, toc |-> NoDoc,
                      coverPage |-> NoDoc]
           /\ navMapBuilder = NewNavMapBuilder
           /\ zip = <<>>
           /\ saved = NoDoc

\* The second file of the root has the extension xls; a subdirectory follows.
C16_Witness ==
    /\ pc = "failed"
    /\ fs.root = << A_HTML, N_XLS >>
    /\ fs.sub = << K_JPG >>
    /\ error = CantGuessMediaType(N_XLS)
    /\ counter = 3
    /\ walked = 1

\* C17: when the configured cover is not an image by its name, and the walk,
\* the spine and the navigation targets are in order, the build fails with
\* an unsupported-content error (the cover is not an image, or a media type
\* cannot be guessed) and nothing is registered with the archive writer,
\* whether or not the cover is a file of the content tree.
C17_NonImageCover ==
    (/\ options.cover # <<>> /\ ~IsImageName(options.cover)
     /\ ~fs.walkFails
     /\ \A i \in 1..Len(options.spine) : options.spine[i] \in RelativePaths(fs)
     /\ Unresolved(options.toc, [p \in RelativePaths(fs) |-> p]) = {}
     /\ pc \in {"failed", "zip", "save", "done"}
     /\ error # InvalidOptions)
    => /\ pc = "failed"
       /\ error.kind \in {"Cover file is not an image", "Can't guess media type"}
       /\ zip = <<>>
       /\ saved = NoDoc

\* C17 where it holds: the cover is a file of the content tree.
C17_CoverInTree ==
    options.cover \in RelativePaths(fs) => C17_NonImageCover

\* The media type the extension of a name stands for.
MediaTypeOfSuffix(name) ==
    CASE EndsWith(name, <<".", "h", "t", "m", "l">>) -> "application/xhtml+xml"
      [] EndsWith(name, <<".", "x", "h", "t", "m", "l">>) -> "application/xhtml+xml"
      [] EndsWith(name, <<".", "p", "n", "g">>) -> "image/png"
      [] EndsWith(name, <<".", "g", "i", "f">>) -> "image/gif"
      [] EndsWith(name, <<".", "j", "p", "g">>) -> "image/jpeg"
      [] EndsWith(name, <<".", "s", "v", "g">>) -> "image/svg+xml"
      [] EndsWith(name, <<".", "c", "s", "s">>) -> "text/css"

\* What C18 says of the k-th file of the root, once buildManifest has
\* come to it.
MediaTypeAsClaimed(k) ==
    LET name == fs.root[k]
    IN  IF HasMappedExtension(name)
        THEN /\ Len(manifest) >= 1 + k
             /\ manifest[1 + k].href = name
             /\ manifest[1 + k].mediaType = MediaTypeOfSuffix(name)
        ELSE /\ pc = "failed"
             /\ error = CantGuessMediaType(name)
             /\ Len(manifest) = k

\* C18: every file buildManifest has come to either has one of the seven
\* extensions and its item has that extension's media type, or has
\* another extension or none and the build has failed there with the error
\* naming it, no item made for it.
C18_MediaTypes ==
    \A k \in 1..Len(fs.root) : k < counter => MediaTypeAsClaimed(k)

\* C18 where it holds: for the names that contain a ".".
C18_DottedNames ==
    \A k \in 1..Len(fs.root) :
        (k < counter /\ \E i \in 1..Len(fs.root[k]) : fs.root[k][i] = ".")
            => MediaTypeAsClaimed(k)

\* The entries C19 lists for the build at hand.
EntriesAsClaimed ==
    { ZipEntry(<<"m", "i", "m", "e", "t", "y", "p", "e">>, "application/epub+zip", <<>>,
               "STORE"),
      ZipEntry(CONTAINER_FILENAME, "container", <<>>, "default"),
      ZipEntry(CONTENT_DIR \o <<"/">> \o CONTENT_FILENAME, "content", <<>>, "default"),
      ZipEntry(CONTENT_DIR \o <<"/">> \o TOC_FILENAME, "toc", <<>>, "default") }
    \cup (IF options.cover # <<>>
          THEN { ZipEntry(CONTENT_DIR \o <<"/">> \o COVER_PAGE_FILENAME, "coverPage", <<>>,
                          "default") }
          ELSE {})
    \cup { ZipEntry(CONTENT_DIR \o <<"/">> \o p, "file", <<"r", "/">> \o p, "default") :
             p \in RelativePaths(fs) }

\* C19: when buildZip has returned, the entries registered are the
\* mimetype entry, first and alone stored uncompressed, the container, the
\* package document, the navigation document, the cover page if and only
\* if a cover is configured, and for every file of the content tree an
\* entry named "OEBPS/" and its relative path, holding that file's bytes;
\* and no others.
C19_ArchiveEntries ==
    pc \in {"save", "done"} =>
        /\ zip[1].name = <<"m", "i", "m", "e", "t", "y", "p", "e">>
        /\ \A i \in 2..Len(zip) : zip[i].compression # "STORE"
        /\ { zip[i] : i \in 1..Len(zip) } = EntriesAsClaimed
        /\ Len(zip) = Cardinality(EntriesAsClaimed)

\* C19 where it holds: under a content root written without a trailing
\* separator.
C19_PlainRoot ==
    contentDir = <<"r">> => C19_ArchiveEntries

\* C20: no two entries registered with the archive writer have the same
\* name.
C20_NoDuplicateEntry ==
    \A i, j \in 1..Len(zip) : i # j => zip[i].name # zip[j].name

\* C20 where it holds: under a content root written without a trailing
\* separator, when no cover is configured or no file of the root is named
\* as the cover page.
C20_NoCoverPageFile ==
    (/\ contentDir = <<"r">>
     /\ (cover = <<>> \/ \A i \in 1..Len(fs.root) : fs.root[i] # COVER_PAGE_FILENAME))
    => C20_NoDuplicateEntry

\* C20 under a content root written without a trailing separator: a file
\* named as the cover page still breaks it.
C20_PlainRoot ==
    contentDir = <<"r">> => C20_NoDuplicateEntry

\* The relative paths of the content files in the archive.
ArchivedFiles ==
    { SubstringFrom(zip[i].name, Len(CONTENT_DIR) + 1) :
        i \in { j \in 1..Len(zip) : zip[j].data.kind = "file" } }

\* The hrefs of the manifest items other than id-toc and id-cover.
ListedFiles ==
    { docs.content.manifest[i].href :
        i \in { j \in 1..Len(docs.content.manifest) :
                  docs.content.manifest[j].id \notin {TOC_ID, COVER_PAGE_ID} } }

\* C21: when buildZip has returned, the content files in the archive are
\* the content files the manifest lists.
C21_ArchivedAreListed ==
    pc \in {"save", "done"} => ArchivedFiles = ListedFiles

\* The options are such that the constructor must refuse them.
InvalidByOptions ==
    \/ options.missing # {}
    \/ Cardinality({ options.spine[i] : i \in 1..Len(options.spine) }) < Len(options.spine)

InvalidByMetadata ==
    \E i \in 1..Len(options.metadata) : options.metadata[i].tag = "(number)"

\* C22: options without contentDir, spine or toc, or with a path twice in
\* the spine, make the constructor throw "Invalid options", and explicit
\* metadata that is not markup makes it throw the validation error; in both
\* cases no metadata has been made, the content directory is never walked,
\* nothing is registered or written, and nothing further happens.
C22_InvalidInputRejected ==
    ((InvalidByOptions \/ InvalidByMetadata) /\ pc # "new") =>
        /\ pc = "failed"
        /\ error = IF InvalidByOptions THEN InvalidOptions ELSE InvalidJSML
        /\ metadata = <<>>
        /\ fileName2id = EmptyMap
        /\ promise = NoPromise
        /\ walked = 0
        /\ zip = <<>>
        /\ saved = NoDoc
        /\ ~ENABLED Next

\* A spine with a path twice has been refused.
C22_Witness ==
    /\ pc = "failed"
    /\ options.spine = << A_HTML, A_HTML >>
    /\ options.missing = {}
    /\ options.metadata = <<>>
    /\ error = InvalidOptions

\* The forest has an item, at any depth, that is not an array or whose info
\* lacks the label or the href.
MalformedToc ==
    \E k \in 1..Len(PreOrder(options.toc)) :
        LET item == PreOrder(options.toc)[k]
        IN  ~item.isArray \/ item.label = <<>> \/ item.href = <<>>

\* C23: a malformed navigation forest is refused before the content
\* directory is walked: once the constructor has run the build has failed,
\* and no walk is ever begun.
C23_MalformedTocBeforeIO ==
    (MalformedToc /\ pc # "new") =>
        /\ pc = "failed"
        /\ walked = 0
        /\ promise = NoPromise

\* C23 as the code has it: a malformed forest is refused by buildTOC, after
\* the walk of buildManifest and before anything is registered with the
\* archive writer.
C23_RefusedByBuildTOC ==
    (MalformedToc /\ ~InvalidByOptions /\ ~InvalidByMetadata) =>
        /\ pc \notin {"zip", "save", "done"}
        /\ zip = <<>>
        /\ (pc = "failed" =>
              /\ walked = Len(WalkTriples(contentDir, fs))
              /\ error.kind \in {"Invalid TOC item", "Invalid TOC item info",
                                  "File not found in manifest"})

C25_RegistryFrame ==
    /\ []((docs.content # NoDoc \/ docs.toc # NoDoc \/ navMapBuilder.built)
             => pc \notin {"new", "ready", "manifest"})
    /\ [](pc = "assemble" =>
             /\ walked = Len(WalkTriples(contentDir, fs))
             /\ counter = Len(WalkOrder(fs)) + 1)
    /\ [][fileName2id' # fileName2id => (pc = "manifest" /\ pc' # "zip")]_vars
    /\ [][pc \notin {"new", "ready", "manifest"} => fileName2id' = fileName2id]_vars

\* The registry of a tree with a subdirectory has been read and the second
\* walk is under way.
C25_Witness ==
    /\ pc = "zip"
    /\ walked = 2
    /\ contentDir = <<"r">>
    /\ fs.root = << A_HTML, B_HTML >>
    /\ fs.sub = << A_HTML, K_JPG >>
    /\ spine = << InSubDir(A_HTML), B_HTML >>
    /\ docs.content # NoDoc
    /\ Cardinality(DOMAIN fileName2id) = 4

\* buildManifest is at its first await: nothing of the walk has been seen.
BuildStarts == pc = "manifest" /\ promise = PendingPromise /\ walked = 1 /\ counter = 1

\* C26: the registry is empty at the start of every build, the builds that
\* follow the first on the same instance included, so that once the manifest
\* is built the registry resolves no path that is not in the content tree:
\* the spine of a package document refers to files of the tree only.
C26_RegistryEmptyAtStart ==
    /\ BuildStarts => fileName2id = EmptyMap
    /\ pc = "assemble" => DOMAIN fileName2id \subseteq RelativePaths(fs)
    /\ (pc = "zip" /\ docs.content # NoDoc) =>
           \A i \in 1..Len(spine) : spine[i] \in RelativePaths(fs)

\* buildManifest run from its start to its end, or to its first throw,
\* over the triples of a walk: st is [counter, reg, manifest, error].
RECURSIVE ManifestOfTriples(_, _, _, _)
ManifestOfTriples(root, triples, i, st) ==
    IF i > Len(triples) \/ st.error # NoError THEN st
    ELSE ManifestOfTriples(root, triples, i + 1,
             ManifestFiles(root, triples[i].dirPath, triples[i].fileNames, 1, st))

\* What the build of an instance produces when it is the only one running.
Alone(inst) ==
    LET built == ManifestOfTriples(inst.contentDir, WalkTriples(inst.contentDir, fs), 1,
                     [counter |-> 1, reg |-> EmptyMap,
                      manifest |-> InitialManifest(inst.cover), error |-> NoError])
    IN  [reg |-> built.reg, manifest |-> built.manifest, counter |-> built.counter,
         nav |-> NavMapBuild(NewNavMapBuilder, inst.toc, built.reg),
         metadata |-> PrepareMetadata(<<>>, inst.options.simpleMetadata,
                                      entropy.uuid, entropy.now).result]

\* An instance has what it has when alone: once buildManifest has returned,
\* its registry and manifest; once buildTOC has returned, its navMap with
\* its play-orders and its maxDepth; once constructed, its metadata list.
AsAlone(inst) ==
    /\ inst.pc \in {"assemble", "zip", "save", "done"} =>
          /\ inst.fileName2id = Alone(inst).reg
          /\ inst.manifest = Alone(inst).manifest
          /\ inst.counter = Alone(inst).counter
    /\ inst.pc \in {"zip", "save", "done"} =>
          /\ Alone(inst).nav.error = NoError
          /\ inst.navMapBuilder = Alone(inst).nav.builder
    /\ inst.pc \notin {"new", "failed"} => inst.metadata = Alone(inst).metadata

\* C27: of two instances whose builds interleave at their awaits in any
\* way, each has the registry, the manifest identifiers, the play-orders,
\* the maxDepth and the metadata list that it has when it runs alone.
C27_PairAsAlone == peer # NoPeer => (AsAlone(Instance) /\ AsAlone(peer))

\* Both instances are inside buildZip at once, each with its own package
\* document and navMap.
C27_Witness ==
    /\ peer # NoPeer
    /\ pc = "zip" /\ peer.pc = "zip"
    /\ walked = 2 /\ peer.walked = 2
    /\ fs.root = <<A_HTML, B_HTML>> /\ fs.sub = <<K_JPG>>
    /\ navMapBuilder.maxDepth # peer.navMapBuilder.maxDepth
    /\ Len(manifest) # Len(peer.manifest)

\* Two navMaps are built from the same forest: the same labels, targets and
\* shape, node by node in pre-order.
SameForest(r1, r2) ==
    /\ Len(PreOrder(r1)) = Len(PreOrder(r2))
    /\ \A k \in 1..Len(PreOrder(r1)) :
          /\ PreOrder(r1)[k].label = PreOrder(r2)[k].label
          /\ PreOrder(r1)[k].src = PreOrder(r2)[k].src
          /\ Len(PreOrder(r1)[k].children) = Len(PreOrder(r2)[k].children)

\* C28: a call of build() on a builder that has built before either throws
\* and leaves result, counter and maxDepth as they were, or succeeds and
\* leaves them as a new builder would: play-orders 1..N in pre-order, the
\* counter at N + 1, maxDepth the depth of the navMap; so building the same
\* forest again gives the same builder.
C28_BuildAllOrNothing ==
    [][(pc = "done" /\ pc' = "done") =>
          /\ error' # NoError => navMapBuilder' = navMapBuilder
          /\ error' = NoError =>
                /\ navMapBuilder'.built
                /\ \A k \in 1..Len(PreOrder(navMapBuilder'.result)) :
                      /\ NumberOf(PreOrder(navMapBuilder'.result)[k].playOrder) = k
                      /\ PreOrder(navMapBuilder'.result)[k].id = NcxId(k)
                /\ navMapBuilder'.counter = Len(PreOrder(navMapBuilder'.result)) + 1
                /\ navMapBuilder'.maxDepth = DepthOf(navMapBuilder'.result)
                /\ SameForest(navMapBuilder'.result, navMapBuilder.result)
                      => navMapBuilder' = navMapBuilder]_vars

\* A builder that had built two nodes on two levels was asked to build a
\* forest with a target that does not resolve, and still has its two nodes.
C28_Witness ==
    /\ pc = "done"
    /\ error = FileNotFound(M_HTML)
    /\ navMapBuilder.built
    /\ navMapBuilder.counter = 3
    /\ navMapBuilder.maxDepth = 2
    /\ Len(navMapBuilder.result) = 1
    /\ toc = << TocItem(TocLabel, A_HTML, <<>>) >>

\* The name under which a file of the content tree is to be archived.
ArchivePath(path) == <<"O", "E", "B", "P", "S", "/">> \o path

\* C29: whatever the content root is written as, with a trailing separator
\* or without, each file of the content tree has its path relative to the
\* content root as its registry key and as the href of its manifest item,
\* and is archived under "OEBPS/" followed by that path.
C29_RelativeEverywhere ==
    pc \in {"save", "done"} =>
        \A k \in 1..Len(WalkOrder(fs)) :
            LET path == WalkOrder(fs)[k]
            IN  /\ path \in DOMAIN fileName2id
                /\ fileName2id[path] = FileId(k)
                /\ \E i \in 1..Len(manifest) :
                      manifest[i].id = FileId(k) /\ manifest[i].href = path
                /\ \E i \in 1..Len(zip) :
                      zip[i].data.kind = "file" /\ zip[i].name = ArchivePath(path)

\* C29 where it holds: under a content root written without a trailing
\* separator.
C29_PlainRoot ==
    contentDir = <<"r">> => C29_RelativeEverywhere

\* C30: when buildManifest has failed on a file whose extension maps to no
\* media type, the registry resolves the relative path of every file that
\* precedes it in walk order, and its own, each to the id of its position,
\* and no other path; the manifest has an item for each file that precedes
\* it and none for it.
C30_RegistryAfterFailure ==
    (/\ pc = "failed"
     /\ Constructed
     /\ ~fs.walkFails
     /\ \E f \in FileNames(fs) : ~HasMappedExtension(f))
    => LET k == FirstUnmapped(fs)
           visited == { WalkOrder(fs)[j] : j \in 1..k }
       IN  /\ fileName2id # EmptyMap
           /\ DOMAIN fileName2id = visited
           /\ \A j \in 1..k : fileName2id[WalkOrder(fs)[j]] = FileId(j)
           /\ \A j \in (k + 1)..Len(WalkOrder(fs)) :
                 WalkOrder(fs)[j] \notin DOMAIN fileName2id
           /\ { manifest[i].href : i \in 1..Len(manifest) }
                 \ {TOC_FILENAME, COVER_PAGE_FILENAME}
                 = { WalkOrder(fs)[j] : j \in 1..(k - 1) }

\* The root holds a.html and then n.xls, and a subdirectory follows: the
\* registry resolves a.html and n.xls, and not the subdirectory's file.
C30_Witness ==
    /\ pc = "failed"
    /\ fs.root = << A_HTML, N_XLS >>
    /\ fs.sub = << K_JPG >>
    /\ ~fs.walkFails
    /\ DOMAIN fileName2id = {A_HTML, N_XLS}
    /\ fileName2id[N_XLS] = FileId(2)
    /\ InSubDir(K_JPG) \notin DOMAIN fileName2id

====
